---- MODULE Spec2Model ----
(***************************************************************************)
(* carrot-kpi/commons-rs: the HTTP access layer (http_client.rs) and the   *)
(* retried fetch / store / pin operations built on it (data.rs, ipfs.rs).  *)
(*                                                                         *)
(* A task either runs one *_with_retry call, step by step (every await of  *)
(* the source is a step), or calls HttpClient::request once on a client    *)
(* it shares with the other tasks.  The upstream servers, the clock and    *)
(* the randomization of the backoff are the environment.                   *)
(***************************************************************************)
EXTENDS Integers, Sequences, FiniteSets, TLC

\* ------------------------------------------------------------------ bounds
MaxPins == 2            \* a pin response lists 0..MaxPins CIDs
NumTasks == 3           \* tasks sharing one client in the concurrent scenario
MaxElapsed == 5         \* the policy's max_elapsed_time, in clock ticks

Tasks == 1..NumTasks

\* ------------------------------------------------------------------ values
\* CIDs are strings, here sequences of characters: one in lower case, the
\* same in upper case, and one that differs in its last character
Cids == {<<"a", "b", "c">>, <<"A", "B", "C">>, <<"a", "b", "d">>}

\* str::to_lowercase, character by character
LowerChar(ch) ==
    CASE ch = "A" -> "a"
      [] ch = "B" -> "b"
      [] ch = "C" -> "c"
      [] OTHER -> ch
to_lowercase(s) == [i \in 1..Len(s) |-> LowerChar(s[i])]

None == [tag |-> "None"]
Some(v) == [tag |-> "Some", v |-> v]
Ok(v) == [tag |-> "Ok", val |-> v]
Err(e) == [tag |-> "Err", err |-> e]
Pending == [tag |-> "Pending"]

\* the clients an operation is handed (Arc<HttpClient> parameters)
Clients == {"s3", "ipfs", "uploader", "web3"}

\* base URLs that reqwest::Url::parse accepts: a hierarchical one, and one
\* that cannot be a base (joining any relative path onto it fails)
HierBase == [str |-> "https://host/", hier |-> TRUE]
OpaqueBase == [str |-> "mailto:host", hier |-> FALSE]
Bases == {HierBase, OpaqueBase}

Tokens == {None, Some("tok")}

\* the rate limiter handed to the builder: one cell per EmissionInterval
\* ticks, Burst cells at once
Quota == [emission |-> 2, burst |-> 1]
Limiters == {None, Some(Quota)}

\* the ExponentialBackoff policy handed to the *_with_retry operations
Policy == [initial_interval |-> 2, multiplier |-> 2, max_interval |-> 4,
           max_elapsed_time |-> MaxElapsed]

\* the clock stops after every call has run out of budget
MaxTime == MaxElapsed + 2 * Quota.emission

\* response bodies the upstreams may send
Garbage == [kind |-> "garbage"]
DocBody(v) == [kind |-> "doc", val |-> v]
CidBody(c) == [kind |-> "cid", cid |-> c]
PinsBody(ps) == [kind |-> "pins", pins |-> ps]
PinLists == UNION {[1..n -> Cids] : n \in 0..MaxPins}
\* upstream c answers with anything: no JSON at all, a document of its own,
\* a cid, a pin list (any list where pin lists are read, shape "pins"; the
\* empty one elsewhere, where every pin list is equally the wrong shape)
Bodies(c, shape) ==
    {Garbage, DocBody([from |-> c])}
        \cup {CidBody(x) : x \in Cids}
        \cup {PinsBody(ps) : ps \in IF shape = "pins" THEN PinLists ELSE {<<>>}}

Path(pre, arg, post) == [pre |-> pre, arg |-> arg, post |-> post]

VARIABLES
    now,        \* the clock, in ticks
    client,     \* the HttpClient of each name, as built
    tat,        \* each client's limiter state
    admitted,   \* each client's limiter: the cells granted, in order
    issued,     \* the number of builders each client's request() returned
    task        \* each task's call: inputs, position, locals and outcome

vars == <<now, client, tat, admitted, issued, task>>

\* ------------------------------------------------------------ http_client.rs

\* reqwest::Url::join as used by HttpClient::request: the join fails on a
\* base that cannot be a base, and the failure is PathJoin(base, path)
UrlJoin(base, path) ==
    IF base.hier
    THEN Ok([base |-> base.str, path |-> path])
    ELSE Err([kind |-> "PathJoin", base |-> base.str, path |-> path])

\* governor's cell-rate state behind until_ready(): the theoretical arrival
\* time, 0 while no cell was ever asked for (then it starts at t + emission)
LimiterTat(q, tatc, t) == IF tatc = 0 THEN t + q.emission ELSE tatc

\* the limiter without its burst tolerance: a cell only once the theoretical
\* arrival time has come
LimiterReady_NoTolerance(q, tatc, t) == t >= LimiterTat(q, tatc, t)

\* a cell is granted at time t when t >= tat - burst * emission
LimiterReady(q, tatc, t) == t + q.burst * q.emission >= LimiterTat(q, tatc, t)

\* the cell consumed moves the theoretical arrival time one emission on
LimiterNext(q, tatc, t) ==
    LET cur == LimiterTat(q, tatc, t) IN
    (IF cur > t THEN cur ELSE t) + q.emission

\* HttpClient::request returning the bare builder whatever the token
Builder_NoAuth(c, method, url, body) ==
    [client |-> c, method |-> method, url |-> url, auth |-> None, body |-> body]

\* the tail of HttpClient::request: the builder for (method, url), with the
\* bearer token when the client has one
Builder(c, method, url, body) ==
    [client |-> c, method |-> method, url |-> url,
     auth |-> IF client[c].bearer_auth_token = None
              THEN None
              ELSE Some(<<"Bearer", client[c].bearer_auth_token.v>>),
     body |-> body]

\* --------------------------------------------------------- the operations
Ops == {"fetch", "ipfs_fetch", "store", "pin", "web3"}

Transient(e) == [class |-> "Transient", err |-> e]
Permanent(e) == [class |-> "Permanent", err |-> e]

\* data.rs fetch_json: the request of each stage, on the lowercased cid
fetch_json_request(stage, cid) ==
    LET lc == to_lowercase(cid) IN
    IF stage = "mirror"
    THEN [client |-> "s3", method |-> "GET", path |-> Path("", lc, ""),
          body |-> None]
    ELSE [client |-> "ipfs", method |-> "POST",
          path |-> Path("/api/v0/cat?arg=", lc, ""), body |-> None]

\* fetch_json with the decoding failure mapped like a failed send
fetch_json_err_DecodeAsRequest(step, cause) ==
    [tag |-> CASE step = "request" -> "RequestConstruction"
               [] step = "send" -> "Request"
               [] step = "json" -> "Request",
     cause |-> cause]

\* data.rs fetch_json: the error a failed step is mapped to
fetch_json_err(step, cause) ==
    [tag |-> CASE step = "request" -> "RequestConstruction"
               [] step = "send" -> "Request"
               [] step = "json" -> "Deserialization",
     cause |-> cause]

\* fetch_json_with_retry retrying the transport error alone
fetch_map_err_ConstructionPermanent(err) ==
    IF err.tag = "Request"
    THEN Transient(err)
    ELSE Permanent(err)

\* data.rs fetch_json_with_retry: the closure's map_err
fetch_map_err(err) ==
    IF err.tag \in {"RequestConstruction", "Request"}
    THEN Transient(err)
    ELSE Permanent(err)

\* ipfs.rs fetch_json_with_retry: the one request, on the cid as given
ipfs_fetch_request(cid) ==
    [client |-> "ipfs", method |-> "POST",
     path |-> Path("/api/v0/cat?arg=", cid, ""), body |-> None]

\* ipfs.rs fetch_json_with_retry: the three map_err of the closure
ipfs_fetch_err(step, cause) ==
    CASE step = "request" -> Transient([tag |-> "RequestConstruction", cause |-> cause])
      [] step = "send" -> Transient([tag |-> "Request", cause |-> cause])
      [] step = "json" -> Permanent([tag |-> "Deserialization", cause |-> cause])

\* data.rs store_json_ipfs: the request
store_json_ipfs_request(json) ==
    [client |-> "uploader", method |-> "POST",
     path |-> Path("/data/json/ipfs", <<>>, ""), body |-> Some(json)]

\* data.rs store_json_ipfs: the error a failed step is mapped to
store_json_ipfs_err(step, cause) ==
    [tag |-> CASE step = "request" -> "RequestConstruction"
               [] step = "send" -> "Request"
               [] step = "json" -> "Deserialization",
     cause |-> cause]

\* store_json_ipfs comparing the cids without regard to case
store_json_ipfs_check_IgnoresCase(store_response, expected_cid) ==
    IF to_lowercase(store_response.cid) # to_lowercase(expected_cid)
    THEN Err([tag |-> "CidMismatch", got |-> store_response.cid,
              expected |-> expected_cid])
    ELSE Ok("unit")

\* store_json_ipfs with the two cids of CidMismatch in the other order
store_json_ipfs_check_Swapped(store_response, expected_cid) ==
    IF store_response.cid # expected_cid
    THEN Err([tag |-> "CidMismatch", got |-> expected_cid,
              expected |-> store_response.cid])
    ELSE Ok("unit")

\* data.rs store_json_ipfs: the comparison of the echoed cid
store_json_ipfs_check(store_response, expected_cid) ==
    IF store_response.cid # expected_cid
    THEN Err([tag |-> "CidMismatch", got |-> store_response.cid,
              expected |-> expected_cid])
    ELSE Ok("unit")

\* store_json_ipfs_with_retry with the cid mismatch left to be retried
store_map_err_RetriesMismatch(err) ==
    IF err.tag \in {"RequestConstruction", "Request", "CidMismatch"}
    THEN Transient(err)
    ELSE Permanent(err)

\* data.rs store_json_ipfs_with_retry: the closure's map_err
store_map_err(err) ==
    IF err.tag \in {"RequestConstruction", "Request"}
    THEN Transient(err)
    ELSE Permanent(err)

\* ipfs.rs pin_cid_with_retry: the request
pin_cid_request(cid) ==
    [client |-> "ipfs", method |-> "POST",
     path |-> Path("/api/v0/pin/add?arg=", cid, ""), body |-> None]

\* pin_cid_with_retry with the decoding failure Permanent, as in the fetch
pin_cid_err_DecodePermanent(step, cause) ==
    CASE step = "request" -> Transient([tag |-> "RequestConstruction", cause |-> cause])
      [] step = "send" -> Transient([tag |-> "Request", cause |-> cause])
      [] step = "json" -> Permanent([tag |-> "Deserialization", cause |-> cause])

\* ipfs.rs pin_cid_with_retry: the three early returns of the closure
pin_cid_err(step, cause) ==
    CASE step = "request" -> Transient([tag |-> "RequestConstruction", cause |-> cause])
      [] step = "send" -> Transient([tag |-> "Request", cause |-> cause])
      [] step = "json" -> Transient([tag |-> "Deserialization", cause |-> cause])

\* pin_cid_with_retry comparing the first pin before counting the pins
pin_cid_check_CidFirst(pins, cid) ==
    IF Len(pins) >= 1 /\ pins[1] # cid
    THEN Err(Permanent([tag |-> "CidMismatch", got |-> pins[1], expected |-> cid]))
    ELSE IF Len(pins) # 1
    THEN Err(Permanent([tag |-> "InconsistentPinnedCidsAmount", n |-> Len(pins)]))
    ELSE Ok("unit")

\* ipfs.rs pin_cid_with_retry: the checks on the decoded PinResponse
pin_cid_check(pins, cid) ==
    IF Len(pins) # 1
    THEN Err(Permanent([tag |-> "InconsistentPinnedCidsAmount", n |-> Len(pins)]))
    ELSE IF pins[1] # cid
    THEN Err(Permanent([tag |-> "CidMismatch", got |-> pins[1], expected |-> cid]))
    ELSE Ok("unit")

\* ipfs.rs pin_cid_web3_storage_with_retry: the request of each stage
web3_request(stage, cid, car) ==
    IF stage = "export"
    THEN [client |-> "ipfs", method |-> "POST",
          path |-> Path("/api/v0/dag/export?arg=", cid, "&progress=false"),
          body |-> None]
    ELSE [client |-> "web3", method |-> "POST", path |-> Path("/car", <<>>, ""),
          body |-> Some(car)]

\* pin_cid_web3_storage_with_retry with the decoding failure Permanent
web3_err_DecodePermanent(stage, step, cause) ==
    IF step = "json"
    THEN Permanent([tag |-> "UploadCarDeserialization", cause |-> cause])
    ELSE Transient([tag |-> CASE stage = "export" /\ step = "request" -> "GetCarRequestConstruction"
                              [] stage = "export" /\ step = "send" -> "GetCarRequest"
                              [] stage = "upload" /\ step = "request" -> "UploadCarRequestConstruction"
                              [] stage = "upload" /\ step = "send" -> "UploadCarRequest",
                    cause |-> cause])

\* ipfs.rs pin_cid_web3_storage_with_retry: the five map_err of the closure
web3_err(stage, step, cause) ==
    Transient([tag |-> CASE stage = "export" /\ step = "request" -> "GetCarRequestConstruction"
                         [] stage = "export" /\ step = "send" -> "GetCarRequest"
                         [] stage = "upload" /\ step = "request" -> "UploadCarRequestConstruction"
                         [] stage = "upload" /\ step = "send" -> "UploadCarRequest"
                         [] stage = "upload" /\ step = "json" -> "UploadCarDeserialization",
               cause |-> cause])

\* ipfs.rs pin_cid_web3_storage_with_retry: the comparison of the uploaded cid
web3_check(car_upload_response, cid) ==
    IF car_upload_response.cid # cid
    THEN Err(Permanent([tag |-> "CidMismatch", got |-> car_upload_response.cid,
                        expected |-> cid]))
    ELSE Ok("unit")

\* ------------------------------------------------------------- the tasks

\* the request the task is about to build at its current stage
StageRequest(k) ==
    CASE k.op = "fetch" -> fetch_json_request(k.stage, k.cid)
      [] k.op = "ipfs_fetch" -> ipfs_fetch_request(k.cid)
      [] k.op = "store" -> store_json_ipfs_request("json")
      [] k.op = "pin" -> pin_cid_request(k.cid)
      [] k.op = "web3" -> web3_request(k.stage, k.cid, k.car)
      [] k.op = "request" -> [client |-> "ipfs", method |-> "GET",
                              path |-> Path("", k.cid, ""), body |-> None]

\* the failure of a step of the current stage, as the closure hands it to
\* the retry driver
StepErr(k, step, cause) ==
    CASE k.op = "fetch" -> fetch_map_err(fetch_json_err(step, cause))
      [] k.op = "ipfs_fetch" -> ipfs_fetch_err(step, cause)
      [] k.op = "store" -> store_map_err(store_json_ipfs_err(step, cause))
      [] k.op = "pin" -> pin_cid_err(step, cause)
      [] k.op = "web3" -> web3_err(k.stage, step, cause)

\* Response::json::<T>(): the body decodes when it has T's shape
Shape(k) ==
    CASE k.op \in {"fetch", "ipfs_fetch"} -> "doc"
      [] k.op \in {"store", "web3"} -> "cid"
      [] k.op = "pin" -> "pins"

\* what the closure returns on a decoded body
Checked(k, body) ==
    CASE k.op \in {"fetch", "ipfs_fetch"} -> Ok(body.val)
      [] k.op = "store" ->
            LET r == store_json_ipfs_check(body, k.expected) IN
            IF r.tag = "Err" THEN Err(store_map_err(r.err)) ELSE r
      [] k.op = "pin" -> pin_cid_check(body.pins, k.cid)
      [] k.op = "web3" -> web3_check(body, k.cid)

FirstStage(o) ==
    CASE o = "fetch" -> "mirror"
      [] o = "ipfs_fetch" -> "cat"
      [] o = "store" -> "store"
      [] o = "pin" -> "pin"
      [] o = "web3" -> "export"
      [] OTHER -> "bare"

\* the interval growing without the cap of max_interval
IncrementInterval_Uncapped(cur) == cur * Policy.multiplier

\* ExponentialBackoff::next_backoff at time t: the randomized interval d
\* drawn around current_interval, none once max_elapsed_time is passed
RandomizedIntervals(cur) == (cur - cur \div 2)..(cur + cur \div 2)

IncrementInterval(cur) ==
    IF cur * Policy.multiplier >= Policy.max_interval
    THEN Policy.max_interval
    ELSE cur * Policy.multiplier

NextBackoff(k, t, d) ==
    LET elapsed == t - k.start IN
    IF elapsed > Policy.max_elapsed_time \/ elapsed + d > Policy.max_elapsed_time
    THEN None
    ELSE Some(d)

\* the driver returning, when the budget is out, the error it held before
Retry_ReturnsEarlierError(k, res, t, d) ==
    IF res.tag = "Ok"
    THEN [k EXCEPT !.pc = "done", !.result = res]
    ELSE IF res.err.class = "Permanent"
    THEN [k EXCEPT !.pc = "done", !.result = Err(res.err.err),
                   !.lastErr = res.err.err]
    ELSE IF NextBackoff(k, t, d) = None
    THEN [k EXCEPT !.pc = "done", !.result = Err(k.lastErr), !.exhausted = TRUE]
    ELSE [k EXCEPT !.pc = "sleep", !.since = t, !.wake = t + d,
                   !.lastErr = res.err.err, !.interval = IncrementInterval(@)]

\* backoff::future::retry on the outcome res of one invocation of the closure
Retry(k, res, t, d) ==
    IF res.tag = "Ok"
    THEN [k EXCEPT !.pc = "done", !.result = res]
    ELSE IF res.err.class = "Permanent"
    THEN [k EXCEPT !.pc = "done", !.result = Err(res.err.err),
                   !.lastErr = res.err.err]
    ELSE IF NextBackoff(k, t, d) = None
    THEN [k EXCEPT !.pc = "done", !.result = Err(res.err.err),
                   !.lastErr = res.err.err, !.exhausted = TRUE]
    ELSE [k EXCEPT !.pc = "sleep", !.since = t, !.wake = t + d,
                   !.lastErr = res.err.err, !.interval = IncrementInterval(@)]

\* next_backoff is called, and an interval drawn, on a Transient error only
Draws(k, res) ==
    IF res.tag = "Err" /\ res.err.class = "Transient"
    THEN RandomizedIntervals(k.interval)
    ELSE {0}

\* the closure returned res: the driver takes over
Finish(t, k, res) ==
    \E d \in Draws(k, res) :
        task' = [task EXCEPT ![t] = Retry(k, res, now, d)]

\* HttpClient::request returned its builder; an operation sends it at once
Built(k, url) ==
    LET r == StageRequest(k)
        rb == Builder(r.client, r.method, url, r.body)
    IN  IF k.op = "request"
        THEN [k EXCEPT !.pc = "done", !.result = Ok(rb)]
        ELSE [k EXCEPT !.pc = "send", !.nreq = @ + 1, !.sent = Append(@, rb)]

\* fetch_json without the fallback: the mirror's send error is returned
FallsBack_Never(k) == FALSE

\* data.rs fetch_json: a failed send on the mirror is not returned, the `_`
\* arm of the match goes on to the gateway
FallsBack(k) == k.op = "fetch" /\ k.stage = "mirror"

\* ipfs.rs pin_cid_web3_storage_with_retry: the export's response is not
\* decoded, its byte stream becomes the body of the upload
StreamsOn(k) == k.op = "web3" /\ k.stage = "export"

\* HttpClient::request never waiting on the limiter
RequestJoin_SkipsLimiter(t) ==
    LET k == task[t]
        r == StageRequest(k)
        j == UrlJoin(client[r.client].base_url, r.path)
    IN  /\ k.pc = "join"
        /\ IF j.tag = "Err"
           THEN IF k.op = "request"
                THEN task' = [task EXCEPT ![t] = [k EXCEPT !.pc = "done", !.result = j]]
                ELSE Finish(t, k, Err(StepErr(k, "request", j.err)))
           ELSE task' = [task EXCEPT ![t] = Built(k, j.val)]
        /\ issued' = IF j.tag = "Ok"
                     THEN [issued EXCEPT ![r.client] = @ + 1]
                     ELSE issued
        /\ UNCHANGED <<now, client, tat, admitted>>

\* HttpClient::request asking the limiter for its cell before it joins the
\* path: the cell is taken even when the join then fails
RequestJoin_LimiterFirst(t) ==
    LET k == task[t]
        r == StageRequest(k)
        c == r.client
        j == UrlJoin(client[c].base_url, r.path)
        limited == client[c].rate_limiter # None
    IN  /\ k.pc = "join"
        /\ IF j.tag = "Err"
           THEN /\ limited => LimiterReady(client[c].rate_limiter.v, tat[c], now)
                /\ IF k.op = "request"
                   THEN task' = [task EXCEPT ![t] = [k EXCEPT !.pc = "done", !.result = j]]
                   ELSE Finish(t, k, Err(StepErr(k, "request", j.err)))
                /\ tat' = IF limited
                          THEN [tat EXCEPT ![c] =
                                   LimiterNext(client[c].rate_limiter.v, tat[c], now)]
                          ELSE tat
                /\ admitted' = IF limited
                               THEN [admitted EXCEPT ![c] =
                                        Append(@, [at |-> now, cell |-> tat'[c]])]
                               ELSE admitted
           ELSE /\ IF limited
                   THEN task' = [task EXCEPT ![t] = [k EXCEPT !.pc = "wait", !.url = j.val]]
                   ELSE task' = [task EXCEPT ![t] = Built(k, j.val)]
                /\ UNCHANGED <<tat, admitted>>
        /\ issued' = IF j.tag = "Ok" /\ ~limited
                     THEN [issued EXCEPT ![c] = @ + 1]
                     ELSE issued
        /\ UNCHANGED <<now, client>>

\* HttpClient::request, first half: join the path; a failed join returns
\* PathJoin, a limited client goes on to wait, any other builds at once
RequestJoin(t) ==
    LET k == task[t]
        r == StageRequest(k)
        j == UrlJoin(client[r.client].base_url, r.path)
    IN  /\ k.pc = "join"
        /\ IF j.tag = "Err"
           THEN IF k.op = "request"
                THEN task' = [task EXCEPT ![t] = [k EXCEPT !.pc = "done", !.result = j]]
                ELSE Finish(t, k, Err(StepErr(k, "request", j.err)))
           ELSE IF client[r.client].rate_limiter # None
                THEN task' = [task EXCEPT ![t] = [k EXCEPT !.pc = "wait", !.url = j.val]]
                ELSE task' = [task EXCEPT ![t] = Built(k, j.val)]
        /\ issued' = IF j.tag = "Ok" /\ client[r.client].rate_limiter = None
                     THEN [issued EXCEPT ![r.client] = @ + 1]
                     ELSE issued
        /\ UNCHANGED <<now, client, tat, admitted>>

\* HttpClient::request, second half: until_ready() grants a cell, then the
\* builder is made
UntilReady(t) ==
    LET k == task[t]
        c == StageRequest(k).client
        q == client[c].rate_limiter.v
    IN  /\ k.pc = "wait"
        /\ LimiterReady(q, tat[c], now)
        /\ tat' = [tat EXCEPT ![c] = LimiterNext(q, tat[c], now)]
        /\ admitted' = [admitted EXCEPT ![c] =
                           Append(@, [at |-> now, cell |-> LimiterNext(q, tat[c], now)])]
        /\ task' = [task EXCEPT ![t] = Built(k, k.url)]
        /\ issued' = [issued EXCEPT ![c] = @ + 1]
        /\ UNCHANGED <<now, client>>

\* the re-pin going on to the upload though the export's send failed
SendErr_ExportIgnored(t) ==
    LET k == task[t]
        cause == [kind |-> "transport", req |-> k.nreq]
    IN  /\ k.pc = "send"
        /\ IF FallsBack(k)
           THEN task' = [task EXCEPT ![t] =
                            [k EXCEPT !.pc = "join", !.stage = "gateway",
                                      !.outcomes = Append(@, "err")]]
           ELSE IF StreamsOn(k)
           THEN task' = [task EXCEPT ![t] =
                            [k EXCEPT !.pc = "join", !.stage = "upload", !.car = k.nreq,
                                      !.outcomes = Append(@, "err")]]
           ELSE Finish(t, [k EXCEPT !.outcomes = Append(@, "err")],
                       Err(StepErr(k, "send", cause)))
        /\ UNCHANGED <<now, client, tat, admitted, issued>>

\* send() failed at the transport level (connect, I/O, or the timeout)
SendErr(t) ==
    LET k == task[t]
        cause == [kind |-> "transport", req |-> k.nreq]
    IN  /\ k.pc = "send"
        /\ IF FallsBack(k)
           THEN task' = [task EXCEPT ![t] =
                            [k EXCEPT !.pc = "join", !.stage = "gateway",
                                      !.outcomes = Append(@, "err")]]
           ELSE Finish(t, [k EXCEPT !.outcomes = Append(@, "err")],
                       Err(StepErr(k, "send", cause)))
        /\ UNCHANGED <<now, client, tat, admitted, issued>>

\* send() completed at the transport level, whatever the status
SendOk(t) ==
    LET k == task[t] IN
        /\ k.pc = "send"
        /\ IF StreamsOn(k)
           THEN task' = [task EXCEPT ![t] =
                            [k EXCEPT !.pc = "join", !.stage = "upload", !.car = k.nreq,
                                      !.outcomes = Append(@, "ok")]]
           ELSE task' = [task EXCEPT ![t] =
                            [k EXCEPT !.pc = "json", !.resp = k.nreq,
                                      !.outcomes = Append(@, "ok")]]
        /\ UNCHANGED <<now, client, tat, admitted, issued>>

\* what the closure returns on a response body: a decoding error when the
\* body has not the shape asked for, the operation's verdict when it has
Decoded(k, body) ==
    IF body.kind # Shape(k)
    THEN Err(StepErr(k, "json", [kind |-> "decode", req |-> k.nreq]))
    ELSE Checked(k, body)

\* json::<T>() on the response in hand, then the operation's checks
Json(t) ==
    LET k == task[t] IN
        /\ k.pc = "json"
        /\ \E body \in Bodies(StageRequest(k).client, Shape(k)) :
              Finish(t, [k EXCEPT !.body = Some(body)], Decoded(k, body))
        /\ UNCHANGED <<now, client, tat, admitted, issued>>

\* the driver resuming the closure where it failed: the stage is kept
Wake_KeepsStage(t) ==
    LET k == task[t] IN
    /\ k.pc = "sleep"
    /\ now >= k.wake
    /\ task' = [task EXCEPT ![t] =
                   [k EXCEPT !.pc = "join",
                             !.attempts = @ + 1, !.sent = <<>>, !.car = 0,
                             !.resp = 0, !.url = None, !.outcomes = <<>>,
                             !.body = None, !.since = 0]]
    /\ UNCHANGED <<now, client, tat, admitted, issued>>

\* the backoff sleep is over: the driver invokes the closure again
Wake(t) ==
    LET k == task[t] IN
    /\ k.pc = "sleep"
    /\ now >= k.wake
    /\ task' = [task EXCEPT ![t] =
                   [k EXCEPT !.pc = "join", !.stage = FirstStage(k.op),
                             !.attempts = @ + 1, !.sent = <<>>, !.car = 0,
                             !.resp = 0, !.url = None, !.outcomes = <<>>,
                             !.body = None, !.since = 0]]
    /\ UNCHANGED <<now, client, tat, admitted, issued>>

\* where the future of a call can be dropped: at its .await points, that is
\* in until_ready(), in send(), in json() and in the driver's sleep
SuspensionPoints == {"wait", "send", "json", "sleep"}

\* the result slot of a call whose future was dropped at the point pc
Cancelled(pc) == [tag |-> "Cancelled", at |-> pc]

\* a cancellation that only marks the call, whose work goes on detached
Cancel_Detached(t) ==
    LET k == task[t] IN
    /\ k.op \in Ops
    /\ k.pc \in SuspensionPoints
    /\ k.result = Pending
    /\ task' = [task EXCEPT ![t] = [k EXCEPT !.result = Cancelled(k.pc)]]
    /\ UNCHANGED <<now, client, tat, admitted, issued>>

\* the caller drops the future of a *_with_retry call at a suspension point:
\* the closure, its request in flight and the driver's sleep go with it
Cancel(t) ==
    LET k == task[t] IN
    /\ k.op \in Ops
    /\ k.pc \in SuspensionPoints
    /\ k.result = Pending
    /\ task' = [task EXCEPT ![t] = [k EXCEPT !.pc = "dropped",
                                             !.result = Cancelled(k.pc)]]
    /\ UNCHANGED <<now, client, tat, admitted, issued>>

\* the clock moves while a task sleeps, waits for a cell, or has yet to
\* call request() on the shared client
Tick ==
    /\ now < MaxTime
    /\ \E t \in Tasks :
          \/ task[t].pc \in {"wait", "sleep"}
          \/ task[t].op = "request" /\ task[t].pc = "join"
    /\ now' = now + 1
    /\ UNCHANGED <<client, tat, admitted, issued, task>>

\* -------------------------------------------------------------- the start
Config(base, token, limiter) ==
    [base_url |-> base, timeout |-> "timeout", bearer_auth_token |-> token,
     rate_limiter |-> limiter]

DefaultConfig == Config(HierBase, None, None)

\* the clients the operations are run on: plain; with a token and a limiter;
\* with a limiter on a base no path joins onto
Configs ==
    {DefaultConfig, Config(HierBase, Some("tok"), Some(Quota)),
     Config(OpaqueBase, None, Some(Quota))}

\* the clients the concurrent tasks share: any base, token and quota
SharedConfigs ==
    {Config(b, tk, l) : b \in Bases, tk \in Tokens,
                        l \in Limiters \cup {Some([emission |-> 2, burst |-> 2])}}

\* the clients an operation is handed, in the order of its parameters
Uses(o) ==
    CASE o = "fetch" -> <<"s3", "ipfs">>
      [] o = "ipfs_fetch" -> <<"ipfs">>
      [] o = "store" -> <<"uploader">>
      [] o = "pin" -> <<"ipfs">>
      [] o = "web3" -> <<"ipfs", "web3">>
      [] OTHER -> <<"ipfs">>

NewTask(o, cid, expected) ==
    [op |-> o, cid |-> cid, expected |-> expected,
     pc |-> IF o = "idle" THEN "done" ELSE "join",
     stage |-> FirstStage(o), url |-> None, car |-> 0, resp |-> 0,
     sent |-> <<>>, outcomes |-> <<>>, body |-> None, nreq |-> 0, attempts |-> IF o = "idle" THEN 0 ELSE 1,
     lastErr |-> None, result |-> Pending, exhausted |-> FALSE,
     interval |-> Policy.initial_interval, start |-> 0, since |-> 0, wake |-> 0]

ClientsOf(o, a, b) ==
    [c \in Clients |->
        IF c = Uses(o)[1] THEN a
        ELSE IF Len(Uses(o)) = 2 /\ c = Uses(o)[2] THEN b
        ELSE DefaultConfig]

\* the strings a caller may hand to HttpClient::builder as base_url: the two
\* that parse, and a relative reference, which has no scheme
BaseStrings == {b.str : b \in Bases} \cup {"host/api"}

\* reqwest::Url::parse: the absolute URL the string denotes, or the error
UrlParse(s) ==
    IF \E b \in Bases : b.str = s
    THEN Ok(CHOOSE b \in Bases : b.str = s)
    ELSE Err("RelativeUrlWithoutBase")

\* HttpClientBuilder after new() and the setters
HttpClientBuilder(base, token, limiter) ==
    [base_url |-> base, timeout |-> "timeout", bearer_auth_token |-> token,
     rate_limiter |-> limiter]

Builders ==
    {HttpClientBuilder(s, tk, l) : s \in BaseStrings, tk \in Tokens, l \in Limiters}

\* HttpClientBuilder::build taking the base as it comes
build_Unparsed(b, transport) ==
    IF ~transport
    THEN Err([tag |-> "Initialization"])
    ELSE Ok([base_url |-> [str |-> b.base_url, hier |-> TRUE], timeout |-> b.timeout,
             bearer_auth_token |-> b.bearer_auth_token,
             rate_limiter |-> b.rate_limiter])

\* HttpClientBuilder::build: the transport client first (transport says
\* whether reqwest could create it), then the parse of the base
build(b, transport) ==
    IF ~transport
    THEN Err([tag |-> "Initialization"])
    ELSE LET u == UrlParse(b.base_url) IN
         IF u.tag = "Err"
         THEN Err([tag |-> "MalformedUrl", base |-> b.base_url, cause |-> u.err])
         ELSE Ok([base_url |-> u.val, timeout |-> b.timeout,
                  bearer_auth_token |-> b.bearer_auth_token,
                  rate_limiter |-> b.rate_limiter])

\* a task about to call build() on the builder b
BuildTask(b, transport) ==
    [builder |-> b, transport |-> transport]
        @@ [NewTask("build", <<"a", "b", "c">>, <<"a", "b", "c">>) EXCEPT !.pc = "build"]

\* the call of build(): its result is the client or the error
Build(t) ==
    LET k == task[t] IN
    /\ k.pc = "build"
    /\ task' = [task EXCEPT ![t] =
                   [k EXCEPT !.pc = "done", !.result = build(k.builder, k.transport)]]
    /\ UNCHANGED <<now, client, tat, admitted, issued>>

\* one task builds a client
InitBuild ==
    \E b \in Builders, transport \in BOOLEAN :
        /\ client = [c \in Clients |-> DefaultConfig]
        /\ task = [t \in Tasks |->
                     IF t = 1 THEN BuildTask(b, transport)
                     ELSE NewTask("idle", <<"a", "b", "c">>, <<"a", "b", "c">>)]

\* one task runs a *_with_retry operation on clients built beforehand
InitCall ==
    \E o \in Ops, cid \in Cids, expected \in Cids,
       a \in Configs, b \in Configs :
        /\ o # "store" => expected = cid
        /\ Len(Uses(o)) = 1 => b = DefaultConfig
        /\ client = ClientsOf(o, a, b)
        /\ task = [t \in Tasks |->
                     IF t = 1 THEN NewTask(o, cid, expected)
                     ELSE NewTask("idle", cid, cid)]

\* every task calls request() on the one client they share
InitShared ==
    \E a \in SharedConfigs :
        /\ client = ClientsOf("request", a, DefaultConfig)
        /\ task = [t \in Tasks |->
                     NewTask("request", <<"a", "b", "c">>, <<"a", "b", "c">>)]

Init ==
    /\ now = 0
    /\ tat = [c \in Clients |-> 0]
    /\ admitted = [c \in Clients |-> <<>>]
    /\ issued = [c \in Clients |-> 0]
    /\ InitCall \/ InitShared \/ InitBuild

Next ==
    \/ \E t \in Tasks : RequestJoin(t)
    \/ \E t \in Tasks : UntilReady(t)
    \/ \E t \in Tasks : SendErr(t)
    \/ \E t \in Tasks : SendOk(t)
    \/ \E t \in Tasks : Json(t)
    \/ \E t \in Tasks : Wake(t)
    \/ \E t \in Tasks : Cancel(t)
    \/ \E t \in Tasks : Build(t)
    \/ Tick

Spec == Init /\ [][Next]_vars

\* ------------------------------------------------- calls that are left to run

\* one task runs a *_with_retry operation that nobody cancels
InitRun ==
    /\ now = 0
    /\ tat = [c \in Clients |-> 0]
    /\ admitted = [c \in Clients |-> <<>>]
    /\ issued = [c \in Clients |-> 0]
    /\ \E o \in Ops, expected \in {<<"A", "B", "C">>, <<"a", "b", "c">>},
          a \in Configs, b \in Configs :
          /\ o # "store" => expected = <<"A", "B", "C">>
          /\ Len(Uses(o)) = 1 => b = DefaultConfig
          /\ client = ClientsOf(o, a, b)
          /\ task = [t \in Tasks |->
                       IF t = 1 THEN NewTask(o, <<"A", "B", "C">>, expected)
                       ELSE NewTask("idle", <<"A", "B", "C">>, <<"A", "B", "C">>)]

NextRun ==
    \/ \E t \in Tasks : RequestJoin(t)
    \/ \E t \in Tasks : UntilReady(t)
    \/ \E t \in Tasks : SendErr(t)
    \/ \E t \in Tasks : SendOk(t)
    \/ \E t \in Tasks : Json(t)
    \/ \E t \in Tasks : Wake(t)
    \/ Tick

\* the runtime polls the future, time passes, every request in flight ends
\* (it completes or its timeout fails it), every body is read or fails, and
\* the driver's timer fires; of the limiter nothing is assumed
Scheduling ==
    /\ WF_vars(Tick)
    /\ \A t \in Tasks :
          /\ WF_vars(RequestJoin(t))
          /\ WF_vars(SendErr(t) \/ SendOk(t))
          /\ WF_vars(Json(t))
          /\ WF_vars(Wake(t))

RunSpec == InitRun /\ [][NextRun]_vars /\ Scheduling

\* ============================================================== the claims

\* the attempt the task made last is over: the driver sleeps or has returned
AttemptEnded(k) == k.pc \in {"sleep", "done"}
Succeeded(k) == k.pc = "done" /\ k.result.tag = "Ok"

MirrorAnswered(k) == k.op = "fetch" /\ k.outcomes # <<>> /\ k.outcomes[1] = "ok"
MirrorFailed(k) == k.op = "fetch" /\ k.outcomes # <<>> /\ k.outcomes[1] = "err"
GatewayPosts(k) == {i \in 1..Len(k.sent) : k.sent[i].client = "ipfs"}
CatPath(k) == Path("/api/v0/cat?arg=", to_lowercase(k.cid), "")

\* C1: in an attempt of the two-tier fetch_json whose mirror send succeeded,
\* the mirror GET is the only request: the gateway is not contacted, the
\* attempt ends on the mirror's body, with the document decoded from it or,
\* when it does not decode, with FetchJsonError::Deserialization.
C1_MirrorAnswerEndsAttempt ==
    \A t \in Tasks :
        LET k == task[t] IN
        MirrorAnswered(k) =>
            /\ Len(k.sent) = 1
            /\ k.sent[1].client = "s3"
            /\ GatewayPosts(k) = {}
            /\ k.pc \in {"json", "done", "dropped"}
            /\ k.pc = "done" =>
                  IF k.body.v.kind = "doc"
                  THEN k.result = Ok([from |-> "s3"])
                  ELSE k.result = Err([tag |-> "Deserialization",
                                       cause |-> [kind |-> "decode", req |-> k.nreq]])

C1_Witness ==
    \E t \in Tasks :
        /\ MirrorAnswered(task[t])
        /\ task[t].pc = "done"
        /\ task[t].result.tag = "Err"
        /\ task[t].result.err.tag = "Deserialization"

\* C2, as claimed: an attempt of the two-tier fetch_json whose mirror send
\* failed has issued exactly one POST on the gateway client when it ends.
C2_ExactlyOneGatewayPost ==
    \A t \in Tasks :
        LET k == task[t] IN
        (MirrorFailed(k) /\ AttemptEnded(k)) => Cardinality(GatewayPosts(k)) = 1

\* C2, amended: after a failed mirror send the gateway request is built once:
\* one POST /api/v0/cat?arg=<lowercased cid> is issued when the path joins
\* onto the gateway's base URL and none when it does not; the attempt's
\* outcome is the gateway's: its document on success, and on failure its
\* RequestConstruction, Request or Deserialization error, never the error of
\* the mirror's send.
C2_FallbackOutcomeIsGateways ==
    \A t \in Tasks :
        LET k == task[t]
            joins == client["ipfs"].base_url.hier
        IN
        (MirrorFailed(k) /\ AttemptEnded(k)) =>
            /\ Cardinality(GatewayPosts(k)) = IF joins THEN 1 ELSE 0
            /\ \A i \in GatewayPosts(k) :
                  /\ i = 2
                  /\ k.sent[i].method = "POST"
                  /\ k.sent[i].url.path = CatPath(k)
            /\ Succeeded(k) =>
                  /\ k.outcomes = <<"err", "ok">>
                  /\ k.body.v = DocBody([from |-> "ipfs"])
                  /\ k.result = Ok([from |-> "ipfs"])
            /\ ~Succeeded(k) =>
                  /\ k.pc = "done" => k.result = Err(k.lastErr)
                  /\ k.lastErr.tag \in {"RequestConstruction", "Request", "Deserialization"}
                  /\ (k.lastErr.tag = "RequestConstruction") = ~joins
                  /\ k.lastErr.tag = "RequestConstruction" =>
                        k.lastErr.cause =
                            [kind |-> "PathJoin",
                             base |-> client["ipfs"].base_url.str, path |-> CatPath(k)]
                  /\ k.lastErr.tag = "Request" =>
                        /\ k.outcomes = <<"err", "err">>
                        /\ k.lastErr.cause = [kind |-> "transport", req |-> k.nreq]
                  /\ k.lastErr.tag = "Deserialization" =>
                        /\ k.outcomes = <<"err", "ok">>
                        /\ k.lastErr.cause = [kind |-> "decode", req |-> k.nreq]

C2_Witness ==
    \E t \in Tasks :
        /\ MirrorFailed(task[t])
        /\ Succeeded(task[t])
        /\ Len(task[t].sent) = 2

\* the errors the specification classifies Permanent, per operation
PermanentTags(o) ==
    CASE o \in {"fetch", "ipfs_fetch"} -> {"Deserialization"}
      [] o = "store" -> {"Deserialization", "CidMismatch"}
      [] o = "pin" -> {"InconsistentPinnedCidsAmount", "CidMismatch"}
      [] o = "web3" -> {"CidMismatch"}
      [] OTHER -> {}

FailedPermanently(k) == k.lastErr # None /\ k.lastErr.tag \in PermanentTags(k.op)

\* C3: an attempt that fails with a Permanent error ends the call at once:
\* the driver returns that very error, without a sleep, without asking for
\* another backoff interval, and nothing of the call changes afterwards (no
\* request, no new attempt); the failing step itself issues no request.
C3_PermanentReturnsAtOnce ==
    /\ [](\A t \in Tasks :
            LET k == task[t] IN
            FailedPermanently(k) =>
                /\ k.pc = "done"
                /\ k.result = Err(k.lastErr)
                /\ ~k.exhausted)
    /\ [][\A t \in Tasks :
            /\ FailedPermanently(task[t]) => task'[t] = task[t]
            /\ (FailedPermanently(task'[t]) /\ ~FailedPermanently(task[t])) =>
                  /\ task'[t].nreq = task[t].nreq
                  /\ task'[t].attempts = task[t].attempts
                  /\ task'[t].interval = task[t].interval]_vars

C3_Witness ==
    \E t \in Tasks :
        /\ FailedPermanently(task[t])
        /\ task[t].attempts = 1
        /\ task[t].nreq = 1
        /\ task[t].pc = "done"

\* the last request of the attempt, as request() was asked for it
LastRequest(k) == StageRequest(k)

\* C4: when the budget runs out on a Transient failure, the call returns the
\* error of the attempt just made: the transport or decoding error of the
\* last request issued, or the PathJoin of the request that attempt could
\* not build; no earlier error, and none the driver made up.
C4_ExhaustionReturnsLastError ==
    \A t \in Tasks :
        LET k == task[t] IN
        k.exhausted =>
            /\ k.pc = "done"
            /\ k.result.tag = "Err"
            /\ k.result.err.tag \notin PermanentTags(k.op)
            /\ k.result.err.cause.kind \in {"transport", "decode", "PathJoin"}
            /\ k.result.err.cause.kind \in {"transport", "decode"} =>
                  /\ k.sent # <<>>
                  /\ k.result.err.cause.req = k.nreq
            /\ k.result.err.cause.kind = "transport" =>
                  k.outcomes[Len(k.outcomes)] = "err"
            /\ k.result.err.cause.kind = "decode" =>
                  k.body # None /\ k.body.v.kind # Shape(k)
            /\ k.result.err.cause.kind = "PathJoin" =>
                  /\ k.result.err.cause.base = client[LastRequest(k).client].base_url.str
                  /\ k.result.err.cause.path = LastRequest(k).path

C4_Witness ==
    \E t \in Tasks :
        /\ task[t].exhausted
        /\ task[t].attempts >= 3
        /\ task[t].result.err.cause.kind = "transport"

\* C5: a store, pin or re-pin returns Ok only on a decoded response whose
\* cid is, character for character, the expected one (and, for the pin, whose
\* Pins list has that one element), however many attempts failed before.
C5_OkMeansCidEchoed ==
    \A t \in Tasks :
        LET k == task[t] IN
        (k.op \in {"store", "pin", "web3"} /\ Succeeded(k)) =>
            /\ k.body # None
            /\ k.outcomes[Len(k.outcomes)] = "ok"
            /\ k.op = "store" => k.body.v = CidBody(k.expected)
            /\ k.op = "pin" => k.body.v = PinsBody(<<k.cid>>)
            /\ k.op = "web3" => k.body.v = CidBody(k.cid)

C5_Witness ==
    \E t \in Tasks :
        /\ task[t].op = "store"
        /\ Succeeded(task[t])
        /\ task[t].attempts >= 2

\* C6: a pin response whose Pins list has n # 1 elements ends the call with
\* InconsistentPinnedCidsAmount(n), not retried, whatever the elements are:
\* the count is checked before the cid is compared.
C6_PinCountCheckedFirst ==
    \A t \in Tasks :
        LET k == task[t] IN
        (/\ k.op = "pin" /\ AttemptEnded(k) /\ k.body # None
         /\ k.body.v.kind = "pins" /\ Len(k.body.v.pins) # 1) =>
            /\ k.pc = "done"
            /\ ~k.exhausted
            /\ k.result = Err([tag |-> "InconsistentPinnedCidsAmount",
                               n |-> Len(k.body.v.pins)])

C6_Witness ==
    \E t \in Tasks :
        /\ task[t].op = "pin"
        /\ task[t].pc = "done"
        /\ task[t].body # None
        /\ task[t].body.v.kind = "pins"
        /\ Len(task[t].body.v.pins) = 2
        /\ task[t].body.v.pins[1] # task[t].cid

\* C7: in store_json_ipfs_with_retry an echoed cid that differs from the
\* expected one, be it only in case, ends the call with CidMismatch(echoed,
\* expected); a body that does not decode ends it with Deserialization; the
\* driver sleeps only on RequestConstruction and Request.
C7_StoreMismatchIsPermanent ==
    \A t \in Tasks :
        LET k == task[t] IN
        k.op = "store" =>
            /\ (AttemptEnded(k) /\ k.body # None /\ k.body.v.kind = "cid"
                  /\ k.body.v.cid # k.expected) =>
                  /\ k.pc = "done"
                  /\ ~k.exhausted
                  /\ k.result = Err([tag |-> "CidMismatch", got |-> k.body.v.cid,
                                     expected |-> k.expected])
            /\ (AttemptEnded(k) /\ k.body # None /\ k.body.v.kind # "cid") =>
                  /\ k.pc = "done"
                  /\ ~k.exhausted
                  /\ k.result.tag = "Err"
                  /\ k.result.err.tag = "Deserialization"
            /\ (k.pc = "sleep" \/ k.exhausted) =>
                  k.lastErr.tag \in {"RequestConstruction", "Request"}

C7_Witness ==
    \E t \in Tasks :
        /\ task[t].op = "store"
        /\ task[t].pc = "done"
        /\ task[t].expected = <<"a", "b", "c">>
        /\ task[t].body = Some(CidBody(<<"A", "B", "C">>))
        /\ task[t].result.tag = "Err"

DecodeFailed(k) ==
    AttemptEnded(k) /\ k.body # None /\ k.body.v.kind # Shape(k)

\* C8: in pin_cid_with_retry a body that does not decode is retried: the
\* driver sleeps (or is out of budget), and every request of the call is
\* the POST /api/v0/pin/add?arg=<cid>; in the fetches and in the store a
\* body that does not decode ends the call with Deserialization.
C8_PinDecodeIsTransient ==
    \A t \in Tasks :
        LET k == task[t] IN
        /\ (k.op = "pin" /\ DecodeFailed(k)) =>
              /\ k.lastErr = [tag |-> "Deserialization",
                              cause |-> [kind |-> "decode", req |-> k.nreq]]
              /\ k.pc = "sleep" \/ k.exhausted
        /\ k.op = "pin" =>
              \A i \in 1..Len(k.sent) :
                  /\ k.sent[i].method = "POST"
                  /\ k.sent[i].url.path = Path("/api/v0/pin/add?arg=", k.cid, "")
        /\ (k.op \in {"fetch", "ipfs_fetch", "store"} /\ DecodeFailed(k)) =>
              /\ k.pc = "done"
              /\ ~k.exhausted
              /\ k.result.tag = "Err"
              /\ k.result.err.tag = "Deserialization"

C8_Witness ==
    \E t \in Tasks :
        /\ task[t].op = "pin"
        /\ task[t].attempts = 2
        /\ task[t].lastErr.tag = "Deserialization"
        /\ task[t].pc = "send"
        /\ task[t].nreq = 2

Web3TransientTags ==
    {"GetCarRequestConstruction", "GetCarRequest", "UploadCarRequestConstruction",
     "UploadCarRequest", "UploadCarDeserialization"}

\* the failure the re-pin attempt ended in, by how far the attempt got
Web3FailureTag(k) ==
    CASE k.sent = <<>> -> "GetCarRequestConstruction"
      [] k.outcomes = <<"err">> -> "GetCarRequest"
      [] k.outcomes = <<"ok">> -> "UploadCarRequestConstruction"
      [] k.outcomes = <<"ok", "err">> -> "UploadCarRequest"
      [] k.outcomes = <<"ok", "ok">> /\ k.body.v.kind # "cid" -> "UploadCarDeserialization"
      [] OTHER -> "CidMismatch"

\* C9: in the re-pin every failure but the cid mismatch is retried: a failed
\* attempt leaves the driver asleep or out of budget unless it ended in
\* CidMismatch, and the call returns within its budget only with Ok or
\* CidMismatch.
C9_Web3OnlyMismatchPermanent ==
    \A t \in Tasks :
        LET k == task[t] IN
        k.op = "web3" =>
            /\ (k.pc = "done" /\ ~k.exhausted) =>
                  \/ k.result.tag = "Ok"
                  \/ k.result.err.tag = "CidMismatch"
            /\ (AttemptEnded(k) /\ ~Succeeded(k)) =>
                  /\ k.lastErr.tag = Web3FailureTag(k)
                  /\ k.lastErr.tag \in Web3TransientTags =>
                        k.pc = "sleep" \/ k.exhausted
                  /\ k.lastErr.tag = "CidMismatch" =>
                        k.pc = "done" /\ ~k.exhausted

C9_Witness ==
    \E t \in Tasks :
        /\ task[t].op = "web3"
        /\ task[t].pc = "sleep"
        /\ task[t].lastErr.tag = "UploadCarDeserialization"

\* C10: on a client with a rate limiter every builder request() returned
\* took one cell of its own: the builders are as many as the cells granted,
\* no cell is granted twice, and counted from the first grant at most burst
\* grants come at once, the j-th no sooner than j - burst emission intervals
\* after the first.
C10_OneCellPerBuilder ==
    \A c \in Clients :
        client[c].rate_limiter # None =>
            LET q == client[c].rate_limiter.v
                a == admitted[c]
            IN  /\ issued[c] = Len(a)
                /\ \A i, j \in 1..Len(a) :
                      i < j =>
                          /\ a[i].cell # a[j].cell
                          /\ a[i].at <= a[j].at
                /\ \A j \in 1..Len(a) :
                      (j - q.burst) * q.emission <= a[j].at - a[1].at

C10_Witness ==
    /\ client["ipfs"].rate_limiter = Some([emission |-> 2, burst |-> 1])
    /\ \A t \in Tasks : task[t].op = "request" /\ Succeeded(task[t])
    /\ Len(admitted["ipfs"]) >= 3
    /\ \A i \in 1..3 : admitted["ipfs"][i].at = 2 * (i - 1)

\* the task is in a call that goes through HttpClient::request
Requests(k) == k.op \in Ops \cup {"request"}

\* the join of the request the task is at fails
JoinFails(k) ==
    /\ Requests(k)
    /\ k.pc = "join"
    /\ UrlJoin(client[StageRequest(k).client].base_url, StageRequest(k).path).tag = "Err"

\* C11: request() joins the path, then waits on the limiter, then builds: a
\* step whose join fails returns PathJoin(base, path) at once, with the clock,
\* the limiter's state and its grants untouched and without ever waiting; a
\* task waits on the limiter only with its url already joined; and on a client
\* with a limiter no builder exists that was not granted a cell.
C11_JoinBeforeLimiter ==
    /\ [](/\ \A c \in Clients :
               /\ ~client[c].base_url.hier =>
                     tat[c] = 0 /\ admitted[c] = <<>> /\ issued[c] = 0
               /\ client[c].rate_limiter # None => issued[c] <= Len(admitted[c])
          /\ \A t \in Tasks :
               LET k == task[t] IN
               (Requests(k) /\ k.pc = "wait") =>
                  /\ client[StageRequest(k).client].rate_limiter # None
                  /\ Ok(k.url) = UrlJoin(client[StageRequest(k).client].base_url,
                                         StageRequest(k).path))
    /\ [][\A t \in Tasks :
            (JoinFails(task[t]) /\ task'[t] # task[t]) =>
                LET k == task[t]
                    r == StageRequest(k)
                    e == [kind |-> "PathJoin", base |-> client[r.client].base_url.str,
                          path |-> r.path]
                IN  /\ tat' = tat /\ admitted' = admitted /\ issued' = issued
                    /\ now' = now
                    /\ task'[t].pc \in {"sleep", "done"}
                    /\ task'[t].nreq = k.nreq
                    /\ IF k.op = "request"
                       THEN task'[t].result = Err(e)
                       ELSE task'[t].lastErr.cause = e]_vars

C11_Witness ==
    \E t \in Tasks :
        /\ task[t].op = "pin"
        /\ client["ipfs"].rate_limiter # None
        /\ task[t].attempts >= 2
        /\ task[t].pc = "sleep"
        /\ task[t].lastErr.tag = "RequestConstruction"
        /\ task[t].lastErr.cause.kind = "PathJoin"
        /\ admitted["ipfs"] = <<>>

\* the Authorization header a request of client c is to carry
BearerOf(c) ==
    IF client[c].bearer_auth_token = None
    THEN None
    ELSE Some(<<"Bearer", client[c].bearer_auth_token.v>>)

\* C12: every builder request() returned carries Authorization: Bearer t when
\* its client was built with the token t and no Authorization header when it
\* was built with none: the requests of every attempt of every operation,
\* the export and the upload of the re-pin each on its own client's token,
\* and the builder a bare call of request() returns.
C12_BearerOnEveryRequest ==
    \A t \in Tasks :
        LET k == task[t] IN
        /\ Requests(k) =>
              \A i \in 1..Len(k.sent) : k.sent[i].auth = BearerOf(k.sent[i].client)
        /\ (k.op = "request" /\ Succeeded(k)) =>
              k.result.val.auth = BearerOf(k.result.val.client)

C12_Witness ==
    \E t \in Tasks :
        LET k == task[t] IN
        /\ k.op = "web3"
        /\ k.attempts >= 2
        /\ Len(k.sent) = 2
        /\ client["ipfs"].bearer_auth_token = Some("tok")
        /\ client["web3"].bearer_auth_token = None
        /\ k.sent[1].auth = Some(<<"Bearer", "tok">>)
        /\ k.sent[2].auth = None

WasCancelled(k) == k.result.tag = "Cancelled"

\* C13: once a *_with_retry call is cancelled, at the limiter wait, with a
\* request in flight or in the backoff sleep, nothing of the call happens any
\* more: no request is built or sent, no cell is taken, no attempt is started,
\* and the cancellation itself issues nothing.
C13_NothingAfterCancel ==
    [][\A t \in Tasks :
          /\ WasCancelled(task[t]) =>
                /\ task'[t] = task[t]
                /\ issued' = issued
                /\ admitted' = admitted
          /\ (WasCancelled(task'[t]) /\ ~WasCancelled(task[t])) =>
                /\ task[t].pc \in SuspensionPoints
                /\ task'[t].result.at = task[t].pc
                /\ task'[t].nreq = task[t].nreq
                /\ task'[t].attempts = task[t].attempts
                /\ task'[t].sent = task[t].sent
                /\ issued' = issued]_vars

C13_Witness ==
    \E t \in Tasks :
        /\ task[t].op = "fetch"
        /\ task[t].result = Cancelled("sleep")
        /\ task[t].attempts = 2
        /\ now > task[t].wake

\* C14, as claimed: every request of a fetch, in either entry point and in
\* every attempt, is on the lowercased cid: the mirror's GET on the path
\* lowercase(cid), the gateway's POST on /api/v0/cat?arg=lowercase(cid).
C14_EveryFetchLowercases ==
    \A t \in Tasks :
        LET k == task[t] IN
        k.op \in {"fetch", "ipfs_fetch"} =>
            \A i \in 1..Len(k.sent) :
                k.sent[i].url.path =
                    IF k.sent[i].client = "s3"
                    THEN Path("", to_lowercase(k.cid), "")
                    ELSE Path("/api/v0/cat?arg=", to_lowercase(k.cid), "")

\* the gateway-only fetch of ipfs.rs has sent its POST on a cid that is not
\* its own lowercasing
C14_Witness ==
    \E t \in Tasks :
        LET k == task[t] IN
        /\ k.op = "ipfs_fetch"
        /\ k.cid = <<"A", "B", "C">>
        /\ Succeeded(k)
        /\ k.sent[1].url.path = Path("/api/v0/cat?arg=", <<"A", "B", "C">>, "")

\* the client is what build() returns on some builder
IsBuilt(cl) ==
    \E s \in BaseStrings :
        build(HttpClientBuilder(s, cl.bearer_auth_token, cl.rate_limiter), TRUE) = Ok(cl)

\* C15: build() returns Initialization when the transport cannot be created,
\* whatever the base; else MalformedUrl(base) when the base does not parse as
\* an absolute URL; else the client, on the parsed base and with the
\* builder's timeout, token and limiter. So the base_url of every client is
\* a parsed absolute URL, and no step of any call changes a client: what
\* request() changes is the limiter's state alone.
C15_BuildValidates ==
    /\ [](/\ \A c \in Clients : client[c].base_url \in Bases /\ IsBuilt(client[c])
          /\ \A t \in Tasks :
               LET k == task[t] IN
               (k.op = "build" /\ k.pc = "done") =>
                  IF ~k.transport
                  THEN k.result = Err([tag |-> "Initialization"])
                  ELSE IF k.builder.base_url \notin {b.str : b \in Bases}
                  THEN /\ k.result.tag = "Err"
                       /\ k.result.err.tag = "MalformedUrl"
                       /\ k.result.err.base = k.builder.base_url
                  ELSE /\ k.result.tag = "Ok"
                       /\ k.result.val.base_url \in Bases
                       /\ k.result.val.base_url.str = k.builder.base_url
                       /\ k.result.val.timeout = k.builder.timeout
                       /\ k.result.val.bearer_auth_token = k.builder.bearer_auth_token
                       /\ k.result.val.rate_limiter = k.builder.rate_limiter)
    /\ [][client' = client]_vars

C15_Witness ==
    \E t \in Tasks :
        /\ task[t].op = "build"
        /\ task[t].transport
        /\ task[t].builder.base_url = "host/api"
        /\ task[t].result.tag = "Err"
        /\ task[t].result.err.tag = "MalformedUrl"

RECURSIVE IntervalN(_)
\* min(initial * multiplier^n, max_interval)
IntervalN(n) ==
    IF n = 0
    THEN IF Policy.initial_interval < Policy.max_interval
         THEN Policy.initial_interval ELSE Policy.max_interval
    ELSE LET p == IntervalN(n - 1) * Policy.multiplier IN
         IF p < Policy.max_interval THEN p ELSE Policy.max_interval

\* the driver sleeps, or slept when the call was cancelled
Sleeps(k) == k.pc = "sleep" \/ k.result = Cancelled("sleep")

\* C16: counting the waits of a call from 0, the interval behind the n-th
\* wait, the one before attempt n + 1, is min(initial * multiplier^n,
\* max_interval): it never decreases and never exceeds max_interval; the wait
\* itself is that interval times a factor in [1/2, 3/2]; and the next attempt
\* starts from the sleep, no sooner than the wait has elapsed.
C16_BackoffIntervals ==
    /\ [](\A t \in Tasks :
            LET k == task[t]
                n == k.attempts - 1
            IN  k.op \in Ops =>
                   IF Sleeps(k)
                   THEN /\ k.interval = IntervalN(n + 1)
                        /\ IntervalN(n) <= Policy.max_interval
                        /\ n > 0 => IntervalN(n - 1) <= IntervalN(n)
                        /\ IntervalN(n) <= 2 * (k.wake - k.since)
                        /\ 2 * (k.wake - k.since) <= 3 * IntervalN(n)
                        /\ k.since <= now
                   ELSE k.interval = IntervalN(n))
    /\ [][\A t \in Tasks :
            task'[t].attempts # task[t].attempts =>
                /\ task'[t].attempts = task[t].attempts + 1
                /\ task[t].pc = "sleep"
                /\ now >= task[t].wake
                /\ now' = now]_vars

C16_Witness ==
    \E t \in Tasks :
        LET k == task[t] IN
        /\ k.op = "pin"
        /\ k.pc = "sleep"
        /\ k.attempts = 3
        /\ k.interval = Policy.max_interval
        /\ k.wake - k.since = Policy.max_interval \div 2

\* C17: every attempt of the two-tier fetch_json_with_retry, the first and
\* each retry, begins at the mirror: the first request of an attempt is the
\* mirror's GET; a request to the gateway is the second of its attempt and
\* comes straight after that attempt's mirror send failed; an attempt has no
\* third request; and the driver starts an attempt with nothing sent, at the
\* mirror stage.
C17_RetryStartsAtMirror ==
    /\ [](\A t \in Tasks :
            LET k == task[t] IN
            k.op = "fetch" =>
                /\ Len(k.sent) <= 2
                /\ k.sent # <<>> =>
                      k.sent[1].client = "s3" /\ k.sent[1].method = "GET"
                /\ \A i \in 1..Len(k.sent) :
                      k.sent[i].client = "ipfs" =>
                          /\ i = 2
                          /\ k.sent[i].method = "POST"
                          /\ k.sent[1].client = "s3"
                          /\ k.outcomes[1] = "err"
                /\ k.stage = "gateway" => k.outcomes # <<>> /\ k.outcomes[1] = "err")
    /\ [][\A t \in Tasks :
            (task[t].op = "fetch" /\ task'[t].attempts # task[t].attempts) =>
                /\ task'[t].stage = "mirror"
                /\ task'[t].pc = "join"
                /\ task'[t].sent = <<>>
                /\ task'[t].outcomes = <<>>
                /\ task'[t].nreq = task[t].nreq]_vars

C17_Witness ==
    \E t \in Tasks :
        LET k == task[t] IN
        /\ k.op = "fetch"
        /\ k.attempts = 2
        /\ k.lastErr.tag = "Request"
        /\ k.nreq = 4
        /\ k.outcomes = <<"err">>
        /\ Len(k.sent) = 2
        /\ k.sent[2].client = "ipfs"

ExportPath(k) == Path("/api/v0/dag/export?arg=", k.cid, "&progress=false")

\* C18: in every attempt of pin_cid_web3_storage_with_retry, the first and
\* each retry, the first request is the gateway's POST
\* /api/v0/dag/export?arg=<cid>&progress=false; the POST /car on the
\* third-party client is the second request of its attempt, issued after that
\* attempt's export send succeeded and with the response of that very export
\* (the request just before it) as its body; an attempt whose export send
\* failed has no upload; and the driver starts every attempt at the export,
\* with no stream in hand.
C18_UploadAfterExport ==
    /\ [](\A t \in Tasks :
            LET k == task[t] IN
            k.op = "web3" =>
                /\ Len(k.sent) <= 2
                /\ k.sent # <<>> =>
                      /\ k.sent[1].client = "ipfs"
                      /\ k.sent[1].method = "POST"
                      /\ k.sent[1].url.path = ExportPath(k)
                      /\ k.sent[1].body = None
                /\ \A i \in 1..Len(k.sent) :
                      k.sent[i].client = "web3" =>
                          /\ i = 2
                          /\ k.sent[i].method = "POST"
                          /\ k.sent[i].url.path = Path("/car", <<>>, "")
                          /\ k.outcomes[1] = "ok"
                          /\ k.sent[i].body = Some(k.nreq - 1)
                /\ (k.outcomes # <<>> /\ k.outcomes[1] = "err") =>
                      /\ Len(k.sent) = 1
                      /\ k.stage = "export"
                      /\ k.car = 0)
    /\ [][\A t \in Tasks :
            (task[t].op = "web3" /\ task'[t].attempts # task[t].attempts) =>
                /\ task'[t].stage = "export"
                /\ task'[t].pc = "join"
                /\ task'[t].sent = <<>>
                /\ task'[t].car = 0]_vars

C18_Witness ==
    \E t \in Tasks :
        LET k == task[t] IN
        /\ k.op = "web3"
        /\ k.attempts = 2
        /\ k.lastErr.tag = "UploadCarDeserialization"
        /\ Len(k.sent) = 2
        /\ k.sent[2].body = Some(3)
        /\ Succeeded(k)

\* the mirror client of the call has a base no path joins onto
MirrorUnjoinable(k) == k.op = "fetch" /\ ~client["s3"].base_url.hier

\* C19: when the lowercased cid does not join onto the mirror's base URL, an
\* attempt of the two-tier fetch ends at once with
\* FetchJsonError::RequestConstruction(PathJoin(base, lowercase(cid))): no
\* request is sent, the gateway is never turned to, and the failure is
\* Transient, so that the driver sleeps and runs the whole fetch again until
\* the budget is out.
C19_MirrorConstructionRetried ==
    \A t \in Tasks :
        LET k == task[t] IN
        MirrorUnjoinable(k) =>
            /\ k.stage = "mirror"
            /\ k.sent = <<>>
            /\ k.nreq = 0
            /\ issued["s3"] = 0 /\ issued["ipfs"] = 0
            /\ k.pc \in {"join", "sleep", "done", "dropped"}
            /\ AttemptEnded(k) =>
                  /\ k.lastErr =
                        [tag |-> "RequestConstruction",
                         cause |-> [kind |-> "PathJoin",
                                    base |-> client["s3"].base_url.str,
                                    path |-> Path("", to_lowercase(k.cid), "")]]
                  /\ k.pc = "done" => k.exhausted /\ k.result = Err(k.lastErr)

C19_Witness ==
    \E t \in Tasks :
        LET k == task[t] IN
        /\ MirrorUnjoinable(k)
        /\ client["ipfs"].base_url.hier
        /\ k.cid = <<"A", "B", "C">>
        /\ k.attempts = 3
        /\ k.pc = "sleep"

\* every limiter wait is granted in the end
WaitsGranted == \A t \in Tasks : WF_vars(UntilReady(t))

Returned(k) == k.pc = "done" /\ k.result.tag \in {"Ok", "Err"}

\* C20: a *_with_retry call that is left to run returns, with Ok, with a
\* Permanent error or with the last Transient one, if every limiter wait is
\* granted in the end (the budget being finite and every request ending);
\* and a call waiting in until_ready() leaves the wait through a grant and
\* through nothing else: no timeout and no end of the retry budget takes it
\* out, so that it waits for as long as no cell is granted.
C20_ReturnsUnlessStarved ==
    /\ WaitsGranted => <>(\A t \in Tasks : task[t].op \in Ops => Returned(task[t]))
    /\ [][\A t \in Tasks :
            (task[t].pc = "wait" /\ task'[t] # task[t]) =>
                /\ LimiterReady(client[StageRequest(task[t]).client].rate_limiter.v,
                                tat[StageRequest(task[t]).client], now)
                /\ Len(admitted'[StageRequest(task[t]).client])
                      = Len(admitted[StageRequest(task[t]).client]) + 1
                /\ task'[t].pc = "send"]_vars

C20_Witness ==
    \E t \in Tasks :
        LET k == task[t]
            c == StageRequest(k).client
        IN  /\ k.op = "pin"
            /\ k.pc = "wait"
            /\ k.attempts = 2
            /\ ~LimiterReady(client[c].rate_limiter.v, tat[c], now)
====
